---- MODULE Spec2Model ----
(***************************************************************************)
(* Model of the resilient API client core of perplexity-cli:                *)
(*   internal/api/client.go        (outer key-rotation loop, one attempt,   *)
(*                                  streaming parser)                       *)
(*   internal/config (part_005)    (Config.RotateKey, ResetKeyRotation)     *)
(*   internal/retry                (Do, IsRetryableError, Config.Wait)      *)
(*   internal/ratelimit            (Limiter.Wait)                           *)
(* One client, one caller: requests run one after another on the same       *)
(* Config, so the rotation state of a request is what earlier requests left.*)
(* Error texts are sequences of word tokens; strings.ToLower and            *)
(* strings.Contains are computed on them.                                   *)
(***************************************************************************)
EXTENDS Integers, Sequences, FiniteSets, TLC

\* ---------------------------------------------------------------- bounds
MaxKeys == 2
MaxRetriesBound == 1
MaxLines == 2
MaxRotKeys == 3
DoMaxRetries == 2
MaxDuration == 4
MaxAttempt == 3
RandSteps == 4
PacerCallers == 2
MaxInterval == 2
MaxTime == 3
RaceThreads == 2
RaceOps == 2
SessionOps == 3

\* ------------------------------------------------------------- text model
RECURSIVE SeqToSet(_)
SeqToSet(s) == IF s = <<>> THEN {} ELSE {Head(s)} \cup SeqToSet(Tail(s))

\* strings.ToLower on one word token
LowerTok(t) ==
  CASE t = "Quota" -> "quota"
    [] t = "EOF" -> "eof"
    [] t = "Try" -> "try"
    [] t = "Invalid" -> "invalid"
    [] t = "API" -> "api"
    [] t = "INSUFFICIENT" -> "insufficient"
    [] t = "CREDIT" -> "credit"
    [] t = "EXHAUSTED" -> "exhausted"
    [] t = "LIMIT" -> "limit"
    [] t = "OUT" -> "out"
    [] t = "OF" -> "of"
    [] t = "NO" -> "no"
    [] t = "BALANCE" -> "balance"
    [] t = "QUOTA" -> "quota"
    [] t = "EXCEEDED" -> "exceeded"
    [] t = "RATE" -> "rate"
    [] t = "ACCOUNT" -> "account"
    [] t = "BLOCKED" -> "blocked"
    [] t = "KEY" -> "key"
    [] OTHER -> t

ToLower(m) == [i \in 1..Len(m) |-> LowerTok(m[i])]

\* strings.Contains(m, p) on token sequences
Contains(m, p) ==
  \E i \in 0..(Len(m) - Len(p)) : \A j \in 1..Len(p) : m[i + j] = p[j]

RotatableErrorCodes == {401, 403, 429}

CreditExhaustedPatterns ==
  { <<"insufficient", "credit">>, <<"credit", "exhausted">>, <<"credit", "limit">>,
    <<"out", "of", "credit">>, <<"no", "credit">>, <<"balance", "exhausted">>,
    <<"insufficient", "balance">>, <<"quota", "exceeded">>, <<"quota", "limit">>,
    <<"rate", "limit", "exceeded">>, <<"account", "blocked">>, <<"key", "blocked">>,
    <<"api", "key", "blocked">> }

retryablePatterns ==
  { <<"connection", "refused">>, <<"connection", "reset">>, <<"connection", "timed", "out">>,
    <<"no", "such", "host">>, <<"network", "is", "unreachable">>, <<"host", "is", "unreachable">>,
    <<"temporary", "failure">>, <<"try", "again">>, <<"i/o", "timeout">>, <<"eof">>,
    <<"broken", "pipe">>, <<"connection", "closed">> }

\* ------------------------------------------------------------ error values
\* kind:   "nil" | "ctx" (ctx.Err() itself) | "api" (*APIError)
\*         | "wrapped" (fmt.Errorf with %w)  | "text" (fmt.Errorf with %v)
\* cause:  what errors.Is / errors.As find in the chain
NilErr == [kind |-> "nil", status |-> 0, msg |-> <<>>, cause |-> "none"]
CtxErr == [kind |-> "ctx", status |-> 0, msg |-> <<"context", "canceled">>, cause |-> "ctx"]

StatusText(s) ==
  CASE s = 401 -> "401" [] s = 402 -> "402" [] s = 403 -> "403"
    [] s = 429 -> "429" [] s = 500 -> "500" [] OTHER -> "0"

\* client.go:356-366 / 455-467: the API error built from a non-200 response;
\* bodyMsg = <<>> stands for a body without a parsable error.message
APIError(s, bodyMsg) ==
  [kind |-> "api", status |-> s,
   msg |-> <<"API", "error:">> \o
           (IF bodyMsg = <<>> THEN <<"status", "code", StatusText(s)>> ELSE bodyMsg),
   cause |-> "none"]

\* fmt.Errorf("failed to ...: %w", err)
Wrap(prefix, cause, text) ==
  [kind |-> "wrapped", status |-> 0, msg |-> prefix \o text, cause |-> cause]

NoMoreKeys == <<"(no", "more", "API", "keys", "available)">>

\* client.go:190: fmt.Errorf("%v (no more API keys available)", err)
Annotate(e) ==
  [kind |-> "text", status |-> 0, msg |-> e.msg \o NoMoreKeys, cause |-> "none"]

\* retry.IsRetryableError
IsRetryableError(e) ==
  IF e.kind = "nil" THEN FALSE
  ELSE IF e.cause = "ctx" THEN FALSE
  ELSE IF e.cause \in {"timeout", "dns", "op"} THEN TRUE
  ELSE \E p \in retryablePatterns : Contains(ToLower(e.msg), p)

\* variant: the message is matched as it is, without strings.ToLower
shouldRotateKey_CaseSensitive(statusCode, errorMsg) ==
  \/ statusCode \in RotatableErrorCodes
  \/ \E p \in CreditExhaustedPatterns : Contains(errorMsg, p)

\* Client.shouldRotateKey
shouldRotateKey(statusCode, errorMsg) ==
  \/ statusCode \in RotatableErrorCodes
  \/ \E p \in CreditExhaustedPatterns : Contains(ToLower(errorMsg), p)

\* ------------------------------------------------------------------ inputs
KeyNames == <<"key1", "key2", "key3", "key4", "key5">>
Statuses == {401, 402, 500}
BodyMessages ==
  { <<>>, <<"Invalid", "key">>, <<"Quota", "exceeded">>, <<"please", "Try", "again">> }

Shapes == {"query", "queryStream", "queryWithHistory", "queryStreamWithHistory"}
IsStreamShape(s) == s \in {"queryStream", "queryStreamWithHistory"}

\* what one HTTP exchange (the closure passed to retry.Do) can produce
SendFailures(cancelled) ==
  { Wrap(<<"failed", "to", "send", "request:">>, "op", <<"connection", "refused">>),
    Wrap(<<"failed", "to", "send", "request:">>, "none", <<"x509:", "certificate", "unknown">>) }
  \cup (IF cancelled
        THEN {Wrap(<<"failed", "to", "send", "request:">>, "ctx", <<"context", "canceled">>)}
        ELSE {})

ReadFailures(cancelled) ==
  { Wrap(<<"failed", "to", "read", "response:">>, "none", <<"unexpected", "EOF">>) }
  \cup (IF cancelled
        THEN {Wrap(<<"failed", "to", "read", "response:">>, "ctx", <<"context", "canceled">>)}
        ELSE {})

ParseFailure == Wrap(<<"failed", "to", "parse", "response:">>, "none", <<"invalid", "character">>)
CreateFailure == Wrap(<<"failed", "to", "create", "request:">>, "none", <<"invalid", "control", "character", "in", "URL">>)

APIErrors == { APIError(s, m) : s \in Statuses, m \in BodyMessages }

\* ------------------------------------------------------- streaming input
\* one line of the event stream, as strings.TrimSpace leaves it
\*  form "data": `data: <json>` with choices[0].delta.content = delta and
\*               citations/usage number meta (0 = no citations and zero usage)
\*  form "done": `data: [DONE]`;  "blank": empty line;  "other": a line without
\*  the `data: ` prefix;  "malformed": `data: ` followed by invalid JSON
Frame(form, delta, meta) == [form |-> form, delta |-> delta, meta |-> meta]

\* no line read yet
NoLine == Frame("none", "", 0)

DataFrames ==
  { Frame("data", "a", 0), Frame("data", "b", 1), Frame("data", "", 2) }

Frames ==
  DataFrames \cup { Frame("done", "", 0), Frame("blank", "", 0),
                    Frame("other", "", 0), Frame("malformed", "", 0) }

\* results of reader.ReadString('\n'):
\*   "line": a line ending in '\n', err = nil
\*   "eof":  err = io.EOF, together with the bytes read so far (frame, or
\*           "blank" when nothing was left)
\*   "fail": another read error
ReadOutcomes(cancelled, more) ==
  (IF more THEN { [kind |-> "line", frame |-> f, cause |-> "none"] : f \in Frames }
   ELSE { [kind |-> "line", frame |-> Frame("done", "", 0), cause |-> "none"] })
  \cup { [kind |-> "eof", frame |-> f, cause |-> "none"] :
           f \in {Frame("blank", "", 0), Frame("data", "a", 0), Frame("data", "", 2)} }
  \cup { [kind |-> "fail", frame |-> Frame("blank", "", 0), cause |-> "none"] }
  \cup (IF cancelled
        THEN { [kind |-> "fail", frame |-> Frame("blank", "", 0), cause |-> "ctx"] }
        ELSE {})

VARIABLES
  APIKeys, CurrentKeyIndex, APIKey, startKeyIndex,  \* config.Config
  MaxRetries,                                      \* retryConfig.MaxRetries
  onKeyRotation,                                   \* is a rotation callback set
  pc, shape, rotating, ctxCancelled, attempt, err, result,
  exchanges, lastSent, attemptExch, attemptKeys, rotateCalls, callbacks,
  observed, sawNonAPI, sawRetriedAPI, startAtBegin,
  streamStarted, linesRead, chunks, expected, finalResp, doneCalls, openBodies,
  lastLine,                                \* the last line the read loop got with err = nil
  fnCalls, firstFinal,                     \* retry.Do: calls of fn, first final call
  onRetry, retryInfos,                     \* is a retry callback set, what it was handed
  waits,                                   \* calls of rateLimiter.Wait in this request
  rotLog, rotFrom, rotOrigin, lastRotate,  \* a run of RotateKey calls and its results
  srCall,                                  \* one shouldRotateKey call and its verdict
  policy, boCall,                          \* a retry.Config and CalculateBackoff calls
  interval, lastRequest, mu,               \* ratelimit.Limiter (mu = 0: unlocked)
  now,                                     \* the clock time.Now() reads
  wpc, wctx, wentry, wwait, wwake, wret,          \* per caller of Limiter.Wait
  granted,                                 \* the values written to lastRequest, in order
  tpc, tnext, tdone,                       \* per goroutine using one Config: position, nextIndex, calls made
  rotated,                                 \* RotateKey calls that returned a key
  messages, lastUserInput, lastResponse,   \* InteractiveSession
  opCount, lastOp, lastExch                \* operations so far, the last one, the exchange of lastUserInput

cfgVars == <<APIKeys, CurrentKeyIndex, APIKey, startKeyIndex>>
streamVars == <<streamStarted, linesRead, chunks, expected, finalResp, doneCalls, openBodies,
                lastLine>>
logVars == <<exchanges, lastSent, attemptExch, attemptKeys, rotateCalls, callbacks,
             observed, sawNonAPI, sawRetriedAPI, startAtBegin>>
vars == <<APIKeys, CurrentKeyIndex, APIKey, startKeyIndex, MaxRetries, onKeyRotation,
          pc, shape, rotating, ctxCancelled, attempt, err, result,
          exchanges, lastSent, attemptExch, attemptKeys, rotateCalls, callbacks,
          observed, sawNonAPI, sawRetriedAPI, startAtBegin,
          streamStarted, linesRead, chunks, expected, finalResp, doneCalls, openBodies, lastLine,
          fnCalls, firstFinal, onRetry, retryInfos, waits, rotLog, rotFrom, rotOrigin, lastRotate, srCall, policy, boCall,
          interval, lastRequest, mu, now, wpc, wctx, wentry, wwait, wwake, wret, granted,
          tpc, tnext, tdone, rotated,
          messages, lastUserInput, lastResponse, opCount, lastOp, lastExch>>
doLog == <<fnCalls, firstFinal, onRetry, retryInfos, waits>>
rotVars == <<rotLog, rotFrom, rotOrigin, lastRotate>>
pacerVars == <<interval, lastRequest, mu, now, wpc, wctx, wentry, wwait, wwake, wret, granted>>
raceVars == <<tpc, tnext, tdone, rotated>>
sessVars == <<messages, lastUserInput, lastResponse, opCount, lastOp, lastExch>>
funVars == <<srCall, policy, boCall, pacerVars, raceVars, sessVars>>

\* ------------------------------------------------------------ config.Config
GetKeyCount(keys) == Len(keys)

\* variant: the cycle is taken to end at index 0, the start is not consulted
RotateKey_WrapAtZero(cfg) ==
  IF Len(cfg.APIKeys) <= 1 THEN [ok |-> FALSE, cfg |-> cfg]
  ELSE LET start == IF cfg.startKeyIndex < 0 THEN cfg.CurrentKeyIndex ELSE cfg.startKeyIndex
           nextIndex == (cfg.CurrentKeyIndex + 1) % Len(cfg.APIKeys)
       IN IF nextIndex = 0
          THEN [ok |-> FALSE, cfg |-> [cfg EXCEPT !.startKeyIndex = -1]]
          ELSE [ok |-> TRUE,
                cfg |-> [cfg EXCEPT !.startKeyIndex = start,
                                    !.CurrentKeyIndex = nextIndex,
                                    !.APIKey = cfg.APIKeys[nextIndex + 1]]]

\* variant: the start of the cycle is recorded before the key count is looked at
RotateKey_MarkFirst(cfg) ==
  LET start == IF cfg.startKeyIndex < 0 THEN cfg.CurrentKeyIndex ELSE cfg.startKeyIndex
      marked == [cfg EXCEPT !.startKeyIndex = start]
  IN IF Len(cfg.APIKeys) <= 1 THEN [ok |-> FALSE, cfg |-> marked]
     ELSE LET nextIndex == (cfg.CurrentKeyIndex + 1) % Len(cfg.APIKeys)
          IN IF nextIndex = start
             THEN [ok |-> FALSE, cfg |-> [cfg EXCEPT !.startKeyIndex = -1]]
             ELSE [ok |-> TRUE,
                   cfg |-> [marked EXCEPT !.CurrentKeyIndex = nextIndex,
                                          !.APIKey = cfg.APIKeys[nextIndex + 1]]]

\* variant: the index advances but Config.APIKey is not refreshed
RotateKey_StaleKey(cfg) ==
  IF Len(cfg.APIKeys) <= 1 THEN [ok |-> FALSE, cfg |-> cfg]
  ELSE LET start == IF cfg.startKeyIndex < 0 THEN cfg.CurrentKeyIndex ELSE cfg.startKeyIndex
           nextIndex == (cfg.CurrentKeyIndex + 1) % Len(cfg.APIKeys)
       IN IF nextIndex = start
          THEN [ok |-> FALSE, cfg |-> [cfg EXCEPT !.startKeyIndex = -1]]
          ELSE [ok |-> TRUE,
                cfg |-> [cfg EXCEPT !.startKeyIndex = start,
                                    !.CurrentKeyIndex = nextIndex]]

\* variant: exhaustion leaves the start of the cycle recorded
RotateKey_KeepMarker(cfg) ==
  IF Len(cfg.APIKeys) <= 1 THEN [ok |-> FALSE, cfg |-> cfg]
  ELSE LET start == IF cfg.startKeyIndex < 0 THEN cfg.CurrentKeyIndex ELSE cfg.startKeyIndex
           nextIndex == (cfg.CurrentKeyIndex + 1) % Len(cfg.APIKeys)
       IN IF nextIndex = start
          THEN [ok |-> FALSE, cfg |-> [cfg EXCEPT !.startKeyIndex = start]]
          ELSE [ok |-> TRUE,
                cfg |-> [cfg EXCEPT !.startKeyIndex = start,
                                    !.CurrentKeyIndex = nextIndex,
                                    !.APIKey = cfg.APIKeys[nextIndex + 1]]]

\* Config.RotateKey on cfg = [APIKeys, CurrentKeyIndex, APIKey, startKeyIndex];
\* ok = FALSE is ErrNoAvailableKeys
RotateKey(cfg) ==
  IF Len(cfg.APIKeys) <= 1 THEN [ok |-> FALSE, cfg |-> cfg]
  ELSE LET start == IF cfg.startKeyIndex < 0 THEN cfg.CurrentKeyIndex ELSE cfg.startKeyIndex
           nextIndex == (cfg.CurrentKeyIndex + 1) % Len(cfg.APIKeys)
       IN IF nextIndex = start
          THEN [ok |-> FALSE, cfg |-> [cfg EXCEPT !.startKeyIndex = -1]]
          ELSE [ok |-> TRUE,
                cfg |-> [cfg EXCEPT !.startKeyIndex = start,
                                    !.CurrentKeyIndex = nextIndex,
                                    !.APIKey = cfg.APIKeys[nextIndex + 1]]]

\* variant: the reset leaves the cycle-start marker as it is
ResetKeyRotation_Keep(cfg) == cfg

\* Config.ResetKeyRotation
ResetKeyRotation(cfg) == [cfg EXCEPT !.startKeyIndex = -1]

Cfg == [APIKeys |-> APIKeys, CurrentKeyIndex |-> CurrentKeyIndex,
        APIKey |-> APIKey, startKeyIndex |-> startKeyIndex]

SetCfg(c) ==
  /\ APIKeys' = c.APIKeys
  /\ CurrentKeyIndex' = c.CurrentKeyIndex
  /\ APIKey' = c.APIKey
  /\ startKeyIndex' = c.startKeyIndex

\* --------------------------------------------------------------- decisions
\* variant: the single-key shortcut tests for an empty key list only
SingleAttemptOnly_Empty(n) == n < 1

\* queryWithRetry and its three siblings: `if c.config.GetKeyCount() <= 1`
SingleAttemptOnly(n) == n <= 1

\* variant: the loop rotates on every error, not only on *APIError
OuterDecision_RetryAll(e, cancelled) ==
  IF e.kind = "nil" THEN "success"
  ELSE IF cancelled THEN "cancelled"
  ELSE "rotate"

\* variant: the cancellation check after a failed attempt is missing
OuterDecision_NoCtxCheck(e, cancelled) ==
  IF e.kind = "nil" THEN "success"
  ELSE IF e.kind # "api" \/ ~shouldRotateKey(e.status, e.msg) THEN "return"
  ELSE "rotate"

\* variant: every *APIError rotates, shouldRotateKey is not consulted
OuterDecision_RotateAnyAPIError(e, cancelled) ==
  IF e.kind = "nil" THEN "success"
  ELSE IF cancelled THEN "cancelled"
  ELSE IF e.kind # "api" THEN "return"
  ELSE "rotate"

\* variant: a retryable transport error is handed to the rotation as well
OuterDecision_RotateOnTransport(e, cancelled) ==
  IF e.kind = "nil" THEN "success"
  ELSE IF cancelled THEN "cancelled"
  ELSE IF e.kind = "wrapped" /\ IsRetryableError(e) THEN "rotate"
  ELSE IF e.kind # "api" \/ ~shouldRotateKey(e.status, e.msg) THEN "return"
  ELSE "rotate"

\* the outer loop's handling of one attempt's error (client.go:172-191)
OuterDecision(e, cancelled) ==
  IF e.kind = "nil" THEN "success"
  ELSE IF cancelled THEN "cancelled"
  ELSE IF e.kind # "api" \/ ~shouldRotateKey(e.status, e.msg) THEN "return"
  ELSE "rotate"

\* retry.Do: what follows one call of fn (retry_test.go:515-548)
DoDecision(e, att, maxRetries) ==
  IF e.kind = "nil" THEN "ok"
  ELSE IF ~IsRetryableError(e) THEN "fail"
  ELSE IF att = maxRetries THEN "giveup"
  ELSE "retry"

\* variant: the callback is handed the 1-based number of the attempt
onRetryFired_OneBased(d, cbSet, att, maxRetries, e) ==
  IF d = "retry" /\ cbSet THEN << <<att + 1, maxRetries, e>> >> ELSE <<>>

\* retry.Do: `if onRetry != nil { onRetry(RetryInfo{attempt, MaxRetries, err, ..}) }`
\* on the way to the backoff sleep; the result is what the callback is handed
onRetryFired(d, cbSet, att, maxRetries, e) ==
  IF d = "retry" /\ cbSet THEN << <<att, maxRetries, e>> >> ELSE <<>>

\* variant: the context is not looked at before an attempt
DoCtxCheck_Never(cancelled) == "call"

\* retry.Do: `if ctx.Err() != nil { return ctx.Err() }` before an attempt
DoCtxCheck(cancelled) == IF cancelled THEN "return" ELSE "call"

\* --------------------------------------------------------------------- Init
\* no request in progress
RequestIdle ==
  /\ pc = "idle"
  /\ shape = "query"
  /\ rotating = FALSE
  /\ ctxCancelled = FALSE
  /\ attempt = 0
  /\ err = NilErr
  /\ result = NilErr
  /\ exchanges = 0
  /\ lastSent = "none"
  /\ attemptExch = 0
  /\ attemptKeys = <<>>
  /\ rotateCalls = 0
  /\ callbacks = <<>>
  /\ observed = FALSE
  /\ sawNonAPI = FALSE
  /\ sawRetriedAPI = FALSE
  /\ startAtBegin = -1
  /\ streamStarted = FALSE
  /\ linesRead = 0
  /\ chunks = <<>>
  /\ expected = <<>>
  /\ finalResp = 0
  /\ doneCalls = <<>>
  /\ openBodies = 0
  /\ lastLine = NoLine
  /\ fnCalls = 0
  /\ waits = 0
  /\ firstFinal = 0
  /\ retryInfos = <<>>

\* no RotateKey call recorded
RotateIdle ==
  /\ rotLog = <<>>
  /\ rotFrom = 0
  /\ rotOrigin = "new"
  /\ lastRotate = "none"

\* the zero time.Time of a new Limiter's lastRequest: further back than any
\* interval
ZeroTime == 0 - MaxInterval

Callers == 1..PacerCallers

\* a Limiter nobody has called yet
PacerIdle ==
  /\ interval = 1
  /\ lastRequest = ZeroTime
  /\ mu = 0
  /\ now = 0
  /\ wpc = [p \in Callers |-> "idle"]
  /\ wctx = [p \in Callers |-> FALSE]
  /\ wentry = [p \in Callers |-> FALSE]
  /\ wwait = [p \in Callers |-> 0]
  /\ wwake = [p \in Callers |-> 0]
  /\ wret = [p \in Callers |-> "none"]
  /\ granted = <<>>

\* no shouldRotateKey or CalculateBackoff call recorded
FunctionsNotCalled ==
  /\ srCall = <<>>
  /\ policy = <<>>
  /\ boCall = <<>>

Threads == 1..RaceThreads

\* no goroutine is inside RotateKey or ResetKeyRotation
RaceIdle ==
  /\ tpc = [t \in Threads |-> "idle"]
  /\ tnext = [t \in Threads |-> 0]
  /\ tdone = [t \in Threads |-> 0]
  /\ rotated = 0

\* a message of the conversation; exch is the number of the chat input it
\* belongs to (0 for the system message)
Message(role, content, exch) == [role |-> role, content |-> content, exch |-> exch]

SystemMessage == Message("system", "system prompt", 0)

\* NewInteractiveSession (part_012:142-144): the system message alone
SessionIdle ==
  /\ messages = <<SystemMessage>>
  /\ lastUserInput = ""
  /\ lastResponse = ""
  /\ opCount = 0
  /\ lastOp = "none"
  /\ lastExch = 0

FunctionsIdle == FunctionsNotCalled /\ PacerIdle /\ RaceIdle /\ SessionIdle

Init ==
  /\ \E n \in 1..MaxKeys :
       /\ APIKeys = SubSeq(KeyNames, 1, n)
       /\ CurrentKeyIndex \in 0..(n - 1)
  /\ APIKey = APIKeys[CurrentKeyIndex + 1]
  /\ startKeyIndex = -1
  /\ MaxRetries \in 0..MaxRetriesBound
  /\ onKeyRotation = TRUE   \* cmd registers the callback right after NewClient
  /\ onRetry = FALSE        \* SetRetryCallback is not called by cmd
  /\ RequestIdle
  /\ RotateIdle
  /\ FunctionsIdle

\* ------------------------------------------------------------ one request
\* variant: the callback is handed the 0-based indices
rotateKey_ZeroBased(cfg, cbSet) ==
  LET oldIndex == cfg.CurrentKeyIndex
      r == RotateKey(cfg)
  IN [ok |-> r.ok, cfg |-> r.cfg,
      fired |-> IF r.ok /\ cbSet
                THEN << <<oldIndex, r.cfg.CurrentKeyIndex, GetKeyCount(r.cfg.APIKeys)>> >>
                ELSE <<>>]

\* Client.rotateKey: RotateKey plus the rotation callback with 1-based positions
rotateKey(cfg, cbSet) ==
  LET oldIndex == cfg.CurrentKeyIndex
      r == RotateKey(cfg)
  IN [ok |-> r.ok, cfg |-> r.cfg,
      fired |-> IF r.ok /\ cbSet
                THEN << <<oldIndex + 1, r.cfg.CurrentKeyIndex + 1, GetKeyCount(r.cfg.APIKeys)>> >>
                ELSE <<>>]

\* entry of queryWithRetry / queryStreamWithRetry / queryWithHistoryRetry /
\* queryStreamWithHistoryRetry, up to the first doQuery* call
StartRequest(sh) ==
  /\ pc \in {"idle", "done"}
  /\ shape' = sh
  /\ rotating' = ~SingleAttemptOnly(GetKeyCount(APIKeys))
  /\ ctxCancelled' = FALSE
  /\ attempt' = 0
  /\ err' = NilErr
  /\ result' = NilErr
  /\ exchanges' = 0
  /\ lastSent' = "none"
  /\ attemptExch' = 0
  /\ attemptKeys' = <<CurrentKeyIndex>>
  /\ rotateCalls' = 0
  /\ callbacks' = <<>>
  /\ observed' = FALSE
  /\ sawNonAPI' = FALSE
  /\ sawRetriedAPI' = FALSE
  /\ startAtBegin' = startKeyIndex
  /\ fnCalls' = 0
  /\ firstFinal' = 0
  /\ retryInfos' = <<>>
  /\ waits' = 0
  /\ UNCHANGED onRetry
  /\ streamStarted' = FALSE
  /\ linesRead' = 0
  /\ chunks' = <<>>
  /\ expected' = <<>>
  /\ finalResp' = 0
  /\ doneCalls' = <<>>
  /\ openBodies' = 0
  /\ lastLine' = NoLine
  /\ pc' = "wait"
  /\ UNCHANGED <<cfgVars, MaxRetries, onKeyRotation>>
  /\ UNCHANGED <<rotVars, funVars>>

\* the caller cancels the request's context
Cancel ==
  /\ pc \notin {"idle", "done"}
  /\ ~ctxCancelled
  /\ ctxCancelled' = TRUE
  /\ UNCHANGED <<cfgVars, MaxRetries, onKeyRotation, pc, shape, rotating, attempt, err,
                 result, logVars, streamVars>>
  /\ UNCHANGED <<doLog, rotVars, funVars>>

\* Limiter.Wait up to the unlock: a nil limiter or an elapsed interval gives
\* waitTime = 0, otherwise the caller sleeps.  json.Marshal of a ChatRequest
\* (strings and a bool) cannot fail, so the attempt goes on to retry.Do.
LimiterWait ==
  /\ pc = "wait"
  /\ \E mustSleep \in BOOLEAN : pc' = IF mustSleep THEN "sleep" ELSE "do"
  /\ attempt' = 0
  /\ err' = NilErr
  /\ attemptExch' = 0
  /\ fnCalls' = 0
  /\ firstFinal' = 0
  /\ retryInfos' = <<>>
  /\ waits' = waits + 1
  /\ UNCHANGED onRetry
  /\ UNCHANGED <<cfgVars, MaxRetries, onKeyRotation, shape, rotating, ctxCancelled, result,
                 exchanges, lastSent, attemptKeys, rotateCalls, callbacks, observed,
                 sawNonAPI, sawRetriedAPI, startAtBegin, streamVars>>
  /\ UNCHANGED <<rotVars, funVars>>

\* Limiter.Wait: `case <-time.After(waitTime)`
LimiterSleepDone ==
  /\ pc = "sleep"
  /\ pc' = "do"
  /\ UNCHANGED <<cfgVars, MaxRetries, onKeyRotation, shape, rotating, ctxCancelled, attempt,
                 err, result, logVars, streamVars>>
  /\ UNCHANGED <<doLog, rotVars, funVars>>

\* Limiter.Wait: `case <-ctx.Done(): return ctx.Err()`
LimiterSleepCancelled ==
  /\ pc = "sleep"
  /\ ctxCancelled
  /\ err' = CtxErr
  /\ observed' = TRUE
  /\ pc' = "after"
  /\ UNCHANGED <<cfgVars, MaxRetries, onKeyRotation, shape, rotating, ctxCancelled, attempt,
                 result, exchanges, lastSent, attemptExch, attemptKeys, rotateCalls, callbacks,
                 sawNonAPI, sawRetriedAPI, startAtBegin, streamVars>>
  /\ UNCHANGED <<doLog, rotVars, funVars>>

\* retry.Do: loop condition and the context check before an attempt
DoLoopHead ==
  /\ pc = "do"
  /\ IF attempt > MaxRetries
     THEN /\ pc' = "after"
          /\ UNCHANGED <<err, observed>>
     ELSE /\ observed' = (observed \/ ctxCancelled)
          /\ IF DoCtxCheck(ctxCancelled) = "return"
             THEN /\ err' = CtxErr
                  /\ pc' = "after"
             ELSE /\ pc' = "fn"
                  /\ UNCHANGED err
  /\ UNCHANGED <<cfgVars, MaxRetries, onKeyRotation, shape, rotating, ctxCancelled, attempt,
                 result, exchanges, lastSent, attemptExch, attemptKeys, rotateCalls, callbacks,
                 sawNonAPI, sawRetriedAPI, startAtBegin, streamVars>>
  /\ UNCHANGED <<doLog, rotVars, funVars>>

\* the outcomes of the closure passed to retry.Do
\* (client.go:335-375 buffered, 440-470 streaming); sent = an HTTP exchange
\* was made, open = a 200 response whose body is still to be read
ExchangeOutcomes(stream, cancelled) ==
  { [sent |-> FALSE, e |-> CreateFailure, open |-> FALSE] }
  \cup { [sent |-> TRUE, e |-> f, open |-> FALSE] : f \in SendFailures(cancelled) }
  \cup { [sent |-> TRUE, e |-> a, open |-> FALSE] : a \in APIErrors }
  \cup (IF stream
        THEN { [sent |-> TRUE, e |-> NilErr, open |-> TRUE] }
        ELSE { [sent |-> TRUE, e |-> f, open |-> FALSE] : f \in ReadFailures(cancelled) }
             \cup { [sent |-> TRUE, e |-> ParseFailure, open |-> FALSE],
                    [sent |-> TRUE, e |-> NilErr, open |-> FALSE] })

\* variant: the closure returns the *APIError without closing the body
BodiesLeftOpen_NoCloseOnError(stream, e) ==
  IF stream /\ e.kind \in {"nil", "api"} THEN 1 ELSE 0

\* response bodies the closure has obtained and not closed when it returns:
\* buffered, `defer resp.Body.Close()` (client.go:349) closes every one;
\* streaming, a non-200 body is read and closed (client.go:456-457) and only
\* the 200 body stays open, for the read loop
BodiesLeftOpen(stream, e) ==
  IF stream /\ e.kind = "nil" THEN 1 ELSE 0

\* one call of fn inside retry.Do and Do's handling of its result
Exchange ==
  /\ pc = "fn"
  /\ \E o \in ExchangeOutcomes(IsStreamShape(shape), ctxCancelled) :
       LET d == DoDecision(o.e, attempt, MaxRetries) IN
         /\ err' = o.e
         /\ fnCalls' = fnCalls + 1
         /\ firstFinal' = IF firstFinal = 0 /\ (o.e.kind = "nil" \/ ~IsRetryableError(o.e))
                          THEN fnCalls + 1 ELSE firstFinal
         /\ retryInfos' = retryInfos \o onRetryFired(d, onRetry, attempt, MaxRetries, o.e)
         /\ UNCHANGED <<onRetry, waits>>
         /\ exchanges' = IF o.sent THEN exchanges + 1 ELSE exchanges
         /\ attemptExch' = IF o.sent THEN attemptExch + 1 ELSE attemptExch
         /\ lastSent' = IF o.sent THEN APIKey ELSE lastSent
         /\ sawNonAPI' = (sawNonAPI \/ o.e.kind = "wrapped")
         /\ sawRetriedAPI' = (sawRetriedAPI \/ (d = "retry" /\ o.e.kind = "api"))
         /\ streamStarted' = (streamStarted \/ o.open)
         /\ openBodies' = openBodies + BodiesLeftOpen(IsStreamShape(shape), o.e)
         /\ pc' = IF d = "retry" THEN "backoff"
                  ELSE IF d = "ok" /\ o.open THEN "stream"
                  ELSE "after"
  /\ UNCHANGED <<cfgVars, MaxRetries, onKeyRotation, shape, rotating, ctxCancelled, attempt,
                 result, attemptKeys, rotateCalls, callbacks, observed, startAtBegin,
                 linesRead, chunks, expected, finalResp, doneCalls, lastLine>>
  /\ UNCHANGED <<rotVars, funVars>>

\* variant: a retry starts over at the pacer wait
RetryResumesAt_Pacer == "wait"

\* the retry loop is inside retry.Do (retry_test.go:515), the pacer wait
\* (client.go:318, 423) is before the Do call: a retry resumes at the loop head
RetryResumesAt == "do"

\* Config.Wait: `case <-time.After(backoff)`, then the loop's attempt++
BackoffElapsed ==
  /\ pc = "backoff"
  /\ attempt' = attempt + 1
  /\ pc' = RetryResumesAt
  /\ UNCHANGED <<cfgVars, MaxRetries, onKeyRotation, shape, rotating, ctxCancelled, err,
                 result, logVars, streamVars>>
  /\ UNCHANGED <<doLog, rotVars, funVars>>

\* Config.Wait: `case <-ctx.Done(): return ctx.Err()`
BackoffCancelled ==
  /\ pc = "backoff"
  /\ ctxCancelled
  /\ err' = CtxErr
  /\ observed' = TRUE
  /\ pc' = "after"
  /\ UNCHANGED <<cfgVars, MaxRetries, onKeyRotation, shape, rotating, ctxCancelled, attempt,
                 result, exchanges, lastSent, attemptExch, attemptKeys, rotateCalls, callbacks,
                 sawNonAPI, sawRetriedAPI, startAtBegin, streamVars>>
  /\ UNCHANGED <<doLog, rotVars, funVars>>

\* ------------------------------------------------------- streaming parser
\* client.go:500-525: what the loop body does with one line
\*   stop: leave the loop; deliver: onChunk arguments; final: the retained
\*   metadata chunk (0 = this line retains nothing)
ProcessLine_MalformedStops(f) ==
  IF f.form \in {"blank", "other"}
  THEN [stop |-> FALSE, deliver |-> <<>>, final |-> 0]
  ELSE IF f.form \in {"done", "malformed"}
  THEN [stop |-> TRUE, deliver |-> <<>>, final |-> 0]
  ELSE [stop |-> FALSE,
        deliver |-> IF f.delta # "" THEN <<f.delta>> ELSE <<>>,
        final |-> f.meta]

ProcessLine(f) ==
  IF f.form \in {"blank", "other", "malformed"}
  THEN [stop |-> FALSE, deliver |-> <<>>, final |-> 0]
  ELSE IF f.form = "done"
  THEN [stop |-> TRUE, deliver |-> <<>>, final |-> 0]
  ELSE [stop |-> FALSE,
        deliver |-> IF f.delta # "" THEN <<f.delta>> ELSE <<>>,
        final |-> f.meta]

\* variant: the first metadata chunk is kept, later ones do not replace it
RetainFinal_First(prev, m) == IF prev > 0 THEN prev ELSE m

\* client.go:523-525: `if len(chunk.Citations) > 0 || chunk.Usage.TotalTokens > 0
\* { finalResp = &chunk }` (m = 0: the chunk has neither)
RetainFinal(prev, m) == IF m > 0 THEN m ELSE prev

\* client.go:492-496: on io.EOF the loop breaks before looking at `line`, so
\* the bytes ReadString returned together with io.EOF are not processed
LineAtEOF(f) == Frame("blank", "", 0)

\* the incremental content a data frame carries (what is to be delivered)
ContentOf(f) == IF f.form = "data" /\ f.delta # "" THEN <<f.delta>> ELSE <<>>

\* client.go:486-490: the cancellation check at the top of the read loop
StreamCtxCheck ==
  /\ pc = "stream"
  /\ IF ctxCancelled
     THEN /\ err' = CtxErr
          /\ observed' = TRUE
          /\ openBodies' = openBodies - 1
          /\ pc' = "after"
     ELSE /\ pc' = "read"
          /\ UNCHANGED <<err, observed, openBodies>>
  /\ UNCHANGED <<cfgVars, MaxRetries, onKeyRotation, shape, rotating, ctxCancelled, attempt,
                 result, exchanges, lastSent, attemptExch, attemptKeys, rotateCalls, callbacks,
                 sawNonAPI, sawRetriedAPI, startAtBegin,
                 streamStarted, linesRead, chunks, expected, finalResp, doneCalls, lastLine>>
  /\ UNCHANGED <<doLog, rotVars, funVars>>

\* client.go:492-532: one ReadString and the processing of its result; leaving
\* the loop runs onDone (when a metadata chunk was retained) and the deferred
\* Body.Close
StreamReadLine ==
  /\ pc = "read"
  /\ \E o \in ReadOutcomes(ctxCancelled, linesRead < MaxLines) :
       IF o.kind = "fail"
       THEN /\ err' = Wrap(<<"failed", "to", "read", "stream:">>,
                           IF o.cause = "ctx" THEN "ctx" ELSE "op",
                           IF o.cause = "ctx" THEN <<"context", "canceled">>
                                              ELSE <<"connection", "reset">>)
            /\ openBodies' = openBodies - 1
            /\ pc' = "after"
            /\ UNCHANGED <<linesRead, chunks, expected, finalResp, doneCalls, lastLine>>
       ELSE LET f == IF o.kind = "eof" THEN LineAtEOF(o.frame) ELSE o.frame
                p == ProcessLine(f)
                stop == p.stop \/ o.kind = "eof"
                final == RetainFinal(finalResp, p.final)
            IN /\ chunks' = chunks \o p.deliver
               /\ expected' = IF o.frame.form = "done" THEN expected
                              ELSE expected \o ContentOf(o.frame)
               /\ finalResp' = final
               /\ linesRead' = IF o.kind = "line" THEN linesRead + 1 ELSE linesRead
               /\ lastLine' = IF o.kind = "line" THEN o.frame ELSE lastLine
               /\ IF stop
                  THEN /\ doneCalls' = IF final # 0 THEN Append(doneCalls, final) ELSE doneCalls
                       /\ err' = NilErr
                       /\ openBodies' = openBodies - 1
                       /\ pc' = "after"
                  ELSE /\ pc' = "stream"
                       /\ UNCHANGED <<doneCalls, err, openBodies>>
  /\ UNCHANGED <<cfgVars, MaxRetries, onKeyRotation, shape, rotating, ctxCancelled, attempt,
                 result, logVars, streamStarted>>
  /\ UNCHANGED <<doLog, rotVars, funVars>>

\* ------------------------------------------------------------- outer loop
\* what queryWithRetry (and its siblings) do with the result of doQuery*:
\* the single-key path returns it; the loop resets, returns or rotates
AfterAttempt ==
  /\ pc = "after"
  /\ IF ~rotating
     THEN /\ result' = err
          /\ pc' = "done"
          /\ UNCHANGED <<cfgVars, attempt, err, attemptExch, attemptKeys, rotateCalls,
                         callbacks, observed>>
     ELSE LET d == OuterDecision(err, ctxCancelled) IN
          /\ observed' = (observed \/ (err.kind # "nil" /\ ctxCancelled))
          /\ IF d = "success"
             THEN /\ SetCfg(ResetKeyRotation(Cfg))
                  /\ result' = NilErr
                  /\ pc' = "done"
                  /\ UNCHANGED <<attempt, err, attemptExch, attemptKeys, rotateCalls, callbacks>>
             ELSE IF d = "cancelled"
             THEN /\ result' = CtxErr
                  /\ pc' = "done"
                  /\ UNCHANGED <<cfgVars, attempt, err, attemptExch, attemptKeys, rotateCalls,
                                 callbacks>>
             ELSE IF d = "return"
             THEN /\ result' = err
                  /\ pc' = "done"
                  /\ UNCHANGED <<cfgVars, attempt, err, attemptExch, attemptKeys, rotateCalls,
                                 callbacks>>
             ELSE LET r == rotateKey(Cfg, onKeyRotation) IN
                  /\ SetCfg(r.cfg)
                  /\ rotateCalls' = rotateCalls + 1
                  /\ callbacks' = callbacks \o r.fired
                  /\ IF r.ok
                     THEN /\ attemptKeys' = Append(attemptKeys, r.cfg.CurrentKeyIndex)
                          /\ pc' = "wait"
                          /\ UNCHANGED <<result, attempt, err, attemptExch>>
                     ELSE /\ result' = Annotate(err)
                          /\ pc' = "done"
                          /\ UNCHANGED <<attempt, err, attemptExch, attemptKeys>>
  /\ UNCHANGED <<MaxRetries, onKeyRotation, shape, rotating, ctxCancelled,
                 exchanges, lastSent, sawNonAPI, sawRetriedAPI, startAtBegin, streamVars>>
  /\ UNCHANGED <<doLog, rotVars, funVars>>

Next ==
  \/ \E sh \in Shapes : StartRequest(sh)
  \/ Cancel
  \/ LimiterWait
  \/ LimiterSleepDone
  \/ LimiterSleepCancelled
  \/ DoLoopHead
  \/ Exchange
  \/ BackoffElapsed
  \/ BackoffCancelled
  \/ StreamCtxCheck
  \/ StreamReadLine
  \/ AfterAttempt

Spec == Init /\ [][Next]_vars

TypeOK ==
  /\ CurrentKeyIndex \in 0..(Len(APIKeys) - 1)
  /\ startKeyIndex \in -1..(Len(APIKeys) - 1)
  /\ pc \in {"idle", "wait", "sleep", "do", "fn", "backoff", "stream", "read", "after", "done"}
  /\ attempt \in 0..(MaxRetriesBound + 1)
  /\ openBodies \in 0..1

\* ------------------------------------------------- key rotation on its own
\* a Config with 0..MaxRotKeys keys (NewConfig and Validate: any start index,
\* no cycle in progress) on which Client.rotateKey and
\* Config.ResetKeyRotation are called in any order
InitRotate ==
  /\ \E n \in 0..MaxRotKeys :
       /\ APIKeys = SubSeq(KeyNames, 1, n)
       /\ CurrentKeyIndex \in (IF n = 0 THEN {0} ELSE 0..(n - 1))
       /\ APIKey = IF n = 0 THEN "" ELSE APIKeys[CurrentKeyIndex + 1]
  /\ startKeyIndex = -1
  /\ MaxRetries = 0
  /\ onKeyRotation \in BOOLEAN
  /\ onRetry = FALSE
  /\ RequestIdle
  /\ rotLog = <<>>
  /\ rotFrom = CurrentKeyIndex
  /\ rotOrigin = "new"
  /\ lastRotate = "none"
  /\ FunctionsIdle

\* one call of Client.rotateKey.  rotLog holds what the calls returned since
\* the Config was created, reset, or last reported exhaustion; rotFrom is the
\* index at that moment; callbacks holds what this call handed to the callback
Rotate ==
  LET r == rotateKey(Cfg, onKeyRotation)
      base == IF lastRotate = "exhausted" THEN <<>> ELSE rotLog
      ret == IF r.ok THEN r.cfg.APIKey ELSE "exhausted"
  IN /\ SetCfg(r.cfg)
     /\ rotLog' = Append(base, ret)
     /\ rotFrom' = IF base = <<>> THEN CurrentKeyIndex ELSE rotFrom
     /\ rotOrigin' = IF lastRotate = "exhausted" THEN "exhausted" ELSE rotOrigin
     /\ lastRotate' = ret
     /\ callbacks' = r.fired
     /\ UNCHANGED <<MaxRetries, onKeyRotation, pc, shape, rotating, ctxCancelled, attempt,
                    err, result, exchanges, lastSent, attemptExch, attemptKeys, rotateCalls,
                    observed, sawNonAPI, sawRetriedAPI, startAtBegin, streamVars, doLog,
                    funVars>>

\* one call of Config.ResetKeyRotation
Reset ==
  /\ SetCfg(ResetKeyRotation(Cfg))
  /\ rotLog' = <<>>
  /\ rotFrom' = CurrentKeyIndex
  /\ rotOrigin' = "reset"
  /\ lastRotate' = "none"
  /\ callbacks' = <<>>
  /\ UNCHANGED <<MaxRetries, onKeyRotation, pc, shape, rotating, ctxCancelled, attempt,
                 err, result, exchanges, lastSent, attemptExch, attemptKeys, rotateCalls,
                 observed, sawNonAPI, sawRetriedAPI, startAtBegin, streamVars, doLog,
                 funVars>>

NextRotate ==
  \/ Rotate
  \/ Reset

SpecRotate == InitRotate /\ [][NextRotate]_vars

\* -------------------------------------------------- shouldRotateKey alone
\* the status codes and messages shouldRotateKey is called with (those of
\* TestClientShouldRotateKey and the codes of RotatableErrorCodes around them)
RotateStatuses == {200, 400, 401, 402, 403, 429, 500}

\* the upper-case spelling of a phrase word
UpperTok(t) ==
  CASE t = "insufficient" -> "INSUFFICIENT" [] t = "credit" -> "CREDIT"
    [] t = "exhausted" -> "EXHAUSTED" [] t = "limit" -> "LIMIT" [] t = "out" -> "OUT"
    [] t = "of" -> "OF" [] t = "no" -> "NO" [] t = "balance" -> "BALANCE"
    [] t = "quota" -> "QUOTA" [] t = "exceeded" -> "EXCEEDED" [] t = "rate" -> "RATE"
    [] t = "account" -> "ACCOUNT" [] t = "blocked" -> "BLOCKED" [] t = "key" -> "KEY"
    [] t = "api" -> "API" [] OTHER -> t

\* a phrase written in lower case, in upper case, or with its first word in
\* upper case
Cased(p, c) ==
  [i \in 1..Len(p) |-> IF c = "upper" \/ (c = "first" /\ i = 1) THEN UpperTok(p[i]) ELSE p[i]]

\* messages without any of the phrases (some share words with them) ...
NeutralMessages ==
  { <<>>, <<"normal", "error">>, <<"Invalid", "key">>, <<"credit", "card", "declined">>,
    <<"limit", "exceeded">>, <<"no", "balance">> }

\* ... and messages built around one of the phrases; phrase records which
PhraseInputs ==
  { [text |-> m, phrase |-> FALSE] : m \in NeutralMessages }
  \cup { [text |-> pre \o Cased(p, c) \o post, phrase |-> TRUE] :
            p \in { <<"insufficient", "credit">>, <<"credit", "exhausted">>,
                    <<"credit", "limit">>, <<"out", "of", "credit">>, <<"no", "credit">>,
                    <<"balance", "exhausted">>, <<"insufficient", "balance">>,
                    <<"quota", "exceeded">>, <<"quota", "limit">>,
                    <<"rate", "limit", "exceeded">>, <<"account", "blocked">>,
                    <<"key", "blocked">>, <<"api", "key", "blocked">> },
            c \in {"lower", "upper", "first"},
            pre \in {<<>>, <<"Error:">>},
            post \in {<<>>, <<"today">>} }

\* a client on a one-key Config, nothing else going on
OneKeyClient ==
  /\ APIKeys = <<"key1">>
  /\ CurrentKeyIndex = 0
  /\ APIKey = "key1"
  /\ startKeyIndex = -1
  /\ MaxRetries = 0
  /\ onKeyRotation = TRUE
  /\ onRetry = FALSE
  /\ RequestIdle
  /\ RotateIdle

InitShould == OneKeyClient /\ FunctionsIdle

\* one call of Client.shouldRotateKey
Classify ==
  /\ srCall = <<>>
  /\ \E st \in RotateStatuses, m \in PhraseInputs :
       srCall' = << [status |-> st, text |-> m.text, phrase |-> m.phrase,
                     verdict |-> shouldRotateKey(st, m.text)] >>
  /\ UNCHANGED <<cfgVars, MaxRetries, onKeyRotation, pc, shape, rotating, ctxCancelled,
                 attempt, err, result, logVars, streamVars, doLog, rotVars, policy, boCall, pacerVars, raceVars, sessVars>>

NextShould == Classify

SpecShould == InitShould /\ [][NextShould]_vars

\* ------------------------------------------------------- retry.Do on its own
\* one call of retry.Do with any MaxRetries (a negative one included) and a
\* buffered or streaming closure; pc = "after" or "stream" is Do's return
\* with err as the returned value
InitDo ==
  /\ APIKeys = <<"key1">>
  /\ CurrentKeyIndex = 0
  /\ APIKey = "key1"
  /\ startKeyIndex = -1
  /\ MaxRetries \in -1..DoMaxRetries
  /\ onKeyRotation = TRUE
  /\ onRetry \in BOOLEAN
  /\ RequestIdle
  /\ RotateIdle
  /\ FunctionsIdle

\* retry.Do is entered: attempt := 0, lastErr = nil
DoCall(sh) ==
  /\ pc = "idle"
  /\ shape' = sh
  /\ pc' = "do"
  /\ UNCHANGED <<cfgVars, MaxRetries, onKeyRotation, rotating, ctxCancelled, attempt, err,
                 result, logVars, streamVars, doLog, rotVars, funVars>>

NextDo ==
  \/ \E sh \in {"query", "queryStream"} : DoCall(sh)
  \/ Cancel
  \/ DoLoopHead
  \/ Exchange
  \/ BackoffElapsed
  \/ BackoffCancelled

SpecDo == InitDo /\ [][NextDo]_vars

\* ------------------------------------------------ CalculateBackoff alone
\* retry.Config as far as CalculateBackoff reads it.  Durations are whole
\* nanoseconds (time.Duration); Multiplier2 is the multiplier in halves
\* (2 = 1.0, 3 = 1.5, 4 = 2.0) and Jitter4 the jitter in quarters (0 .. 1.0)
Policies ==
  [InitialBackoff : 1..MaxDuration, MaxBackoff : 1..MaxDuration,
   Multiplier2 : {2, 3, 4}, Jitter4 : 0..4]

RECURSIVE Pow(_, _)
Pow(b, n) == IF n <= 0 THEN 1 ELSE b * Pow(b, n - 1)

\* variant: the exponential value is not capped at MaxBackoff
CalculateBackoff_NoCap(c, att, rnd) ==
  LET bn == c.InitialBackoff * Pow(c.Multiplier2, att)
      bd == Pow(2, att)
  IN IF att <= 0 THEN c.InitialBackoff
     ELSE IF c.Jitter4 > 0
     THEN (bn * ((4 - c.Jitter4) * RandSteps + 2 * rnd * c.Jitter4)) \div (bd * 4 * RandSteps)
     ELSE bn \div bd

\* Config.CalculateBackoff with rand.Float64() = rnd / RandSteps.  The float64
\* value is kept as the exact fraction bn / bd:
\*   backoff - jitterRange + rand * 2 * jitterRange
\*     = backoff * ((4 - Jitter4) * RandSteps + 2 * rnd * Jitter4) / (4 * RandSteps)
\* and time.Duration(backoff) drops the fraction of a nanosecond
CalculateBackoff(c, att, rnd) ==
  LET num == c.InitialBackoff * Pow(c.Multiplier2, att)
      den == Pow(2, att)
      over == num > c.MaxBackoff * den
      bn == IF over THEN c.MaxBackoff ELSE num
      bd == IF over THEN 1 ELSE den
  IN IF att <= 0 THEN c.InitialBackoff
     ELSE IF c.Jitter4 > 0
     THEN (bn * ((4 - c.Jitter4) * RandSteps + 2 * rnd * c.Jitter4)) \div (bd * 4 * RandSteps)
     ELSE bn \div bd

InitBackoff ==
  /\ OneKeyClient
  /\ srCall = <<>>
  /\ policy \in Policies
  /\ boCall = <<>>
  /\ PacerIdle
  /\ RaceIdle
  /\ SessionIdle

\* one call of Config.CalculateBackoff
Calculate ==
  /\ boCall = <<>>
  /\ \E a \in 0..MaxAttempt, rnd \in 0..(RandSteps - 1) :
       boCall' = << [attempt |-> a, rnd |-> rnd, value |-> CalculateBackoff(policy, a, rnd)] >>
  /\ UNCHANGED <<cfgVars, MaxRetries, onKeyRotation, pc, shape, rotating, ctxCancelled,
                 attempt, err, result, logVars, streamVars, doLog, rotVars, srCall, policy, pacerVars, raceVars, sessVars>>

\* retry.Do on the way to a retry (retry_test.go:531-546):
\* `nextBackoff := cfg.CalculateBackoff(attempt)` for RetryInfo.NextBackoff, then
\* cfg.Wait(ctx, attempt), which calls CalculateBackoff(attempt) again and sleeps
\* that value; each call draws its own rand.Float64().  boCall[1] is the call
\* for the callback, boCall[2] the call inside Wait
ReportAndWait ==
  /\ boCall = <<>>
  /\ \E a \in 0..MaxAttempt, rnd \in 0..(RandSteps - 1), rndWait \in 0..(RandSteps - 1) :
       boCall' = << [attempt |-> a, rnd |-> rnd, value |-> CalculateBackoff(policy, a, rnd)],
                    [attempt |-> a, rnd |-> rndWait,
                     value |-> CalculateBackoff(policy, a, rndWait)] >>
  /\ UNCHANGED <<cfgVars, MaxRetries, onKeyRotation, pc, shape, rotating, ctxCancelled,
                 attempt, err, result, logVars, streamVars, doLog, rotVars, srCall, policy, pacerVars, raceVars, sessVars>>

NextBackoff ==
  \/ Calculate
  \/ ReportAndWait

SpecBackoff == InitBackoff /\ [][NextBackoff]_vars

\* ------------------------------------------------- Limiter.Wait, concurrent
\* ratelimit.go:32-38: the wait a caller is given
WaitTime(t, last, ival) ==
  LET elapsed == t - last
  IN IF elapsed < ival THEN ival - elapsed ELSE 0

\* variant: the time of the call is stored, the wait is not added
Reservation_NoWait(t, waitTime) == t

\* ratelimit.go:41: `l.lastRequest = now.Add(waitTime)`
Reservation(t, waitTime) == t + waitTime

\* a non-nil Limiter with an interval of 1..MaxInterval ticks, either new
\* (lastRequest the zero time) or used by a Wait that was given the slot 0,
\* and PacerCallers goroutines that each call Wait once with its own context
InitPacer ==
  /\ OneKeyClient
  /\ FunctionsNotCalled
  /\ interval \in 1..MaxInterval
  /\ \/ lastRequest = ZeroTime /\ granted = <<>>
     \/ lastRequest = 0 /\ granted = <<0>>
  /\ mu = 0
  /\ now = 0
  /\ wpc = [p \in Callers |-> "idle"]
  /\ wctx = [p \in Callers |-> FALSE]
  /\ wentry = [p \in Callers |-> FALSE]
  /\ wwait = [p \in Callers |-> 0]
  /\ wwake = [p \in Callers |-> 0]
  /\ wret = [p \in Callers |-> "none"]
  /\ RaceIdle
  /\ SessionIdle

PacerFrame ==
  UNCHANGED <<cfgVars, MaxRetries, onKeyRotation, pc, shape, rotating, ctxCancelled, attempt,
              err, result, logVars, streamVars, doLog, rotVars, srCall, policy, boCall,
              interval, raceVars, sessVars>>

\* time passes
Tick ==
  /\ now < MaxTime
  /\ now' = now + 1
  /\ UNCHANGED <<lastRequest, mu, wpc, wctx, wentry, wwait, wwake, wret, granted>>
  /\ PacerFrame

\* the context of caller p is cancelled (before, during or after its Wait)
PCancel(p) ==
  /\ ~wctx[p]
  /\ wctx' = [wctx EXCEPT ![p] = TRUE]
  /\ UNCHANGED <<lastRequest, mu, now, wpc, wentry, wwait, wwake, wret, granted>>
  /\ PacerFrame

\* ratelimit.go:31: l.mu.Lock(); wentry records a context cancelled on entry
PLock(p) ==
  /\ wpc[p] = "idle"
  /\ mu = 0
  /\ mu' = p
  /\ wpc' = [wpc EXCEPT ![p] = "locked"]
  /\ wentry' = [wentry EXCEPT ![p] = wctx[p]]
  /\ UNCHANGED <<lastRequest, now, wctx, wwait, wwake, wret, granted>>
  /\ PacerFrame

\* ratelimit.go:32-41: time.Now(), the wait, and the reservation
PReserve(p) ==
  /\ wpc[p] = "locked"
  /\ LET w == WaitTime(now, lastRequest, interval)
     IN /\ wwait' = [wwait EXCEPT ![p] = w]
        /\ lastRequest' = Reservation(now, w)
        /\ granted' = Append(granted, Reservation(now, w))
  /\ wpc' = [wpc EXCEPT ![p] = "reserved"]
  /\ UNCHANGED <<mu, now, wctx, wentry, wwake, wret>>
  /\ PacerFrame

\* variant: the unlock is deferred, a caller that sleeps keeps the lock
HolderAfterReserve_Deferred(p, waitTime) == IF waitTime > 0 THEN p ELSE 0

\* ratelimit.go:42: `l.mu.Unlock()` comes before `if waitTime > 0`: nobody
\* holds the lock (0) once the reservation is written
HolderAfterReserve(p, waitTime) == 0

\* ratelimit.go:42-46: l.mu.Unlock(); without a wait the call returns nil,
\* otherwise the select starts time.After(waitTime)
PUnlock(p) ==
  /\ wpc[p] = "reserved"
  /\ mu' = HolderAfterReserve(p, wwait[p])
  /\ IF wwait[p] > 0
     THEN /\ wpc' = [wpc EXCEPT ![p] = "sleep"]
          /\ wwake' = [wwake EXCEPT ![p] = now + wwait[p]]
          /\ UNCHANGED wret
     ELSE /\ wpc' = [wpc EXCEPT ![p] = "done"]
          /\ wret' = [wret EXCEPT ![p] = "nil"]
          /\ UNCHANGED wwake
  /\ UNCHANGED <<lastRequest, now, wctx, wentry, wwait, granted>>
  /\ PacerFrame

\* variant: the select has a default case and never blocks
SelectReady_NoBlock(cancelled, fired) ==
  (IF cancelled THEN {"ctx"} ELSE {}) \cup {"nil"}

\* ratelimit.go:46-50: the cases of the select that can be taken:
\* `<-ctx.Done()` returns ctx.Err(), `<-time.After(waitTime)` falls through
\* to `return nil`
SelectReady(cancelled, fired) ==
  (IF cancelled THEN {"ctx"} ELSE {}) \cup (IF fired THEN {"nil"} ELSE {})

\* ratelimit.go:46-53: the select takes one of its ready cases
PSelect(p) ==
  /\ wpc[p] = "sleep"
  /\ \E r \in SelectReady(wctx[p], now >= wwake[p]) :
       wret' = [wret EXCEPT ![p] = r]
  /\ wpc' = [wpc EXCEPT ![p] = "done"]
  /\ UNCHANGED <<lastRequest, mu, now, wctx, wentry, wwait, wwake, granted>>
  /\ PacerFrame

NextPacer ==
  \/ Tick
  \/ \E p \in Callers : PCancel(p)
  \/ \E p \in Callers : PLock(p)
  \/ \E p \in Callers : PReserve(p)
  \/ \E p \in Callers : PUnlock(p)
  \/ \E p \in Callers : PSelect(p)

SpecPacer == InitPacer /\ [][NextPacer]_vars

\* --------------------------------- Config shared by concurrent requests
\* Config has no lock (part_005:48-62) and Client takes none around
\* rotateKey (client.go:138-151): the reads and writes of RotateKey and
\* ResetKeyRotation of RaceThreads goroutines interleave field by field
InitRace ==
  /\ \E n \in 1..MaxRotKeys : APIKeys = SubSeq(KeyNames, 1, n)
  /\ CurrentKeyIndex = 0
  /\ APIKey = APIKeys[1]
  /\ startKeyIndex = -1
  /\ MaxRetries = 0
  /\ onKeyRotation = TRUE
  /\ onRetry = FALSE
  /\ RequestIdle
  /\ RotateIdle
  /\ FunctionsIdle

RaceFrame ==
  UNCHANGED <<APIKeys, MaxRetries, onKeyRotation, pc, shape, rotating, ctxCancelled, attempt,
              err, result, logVars, streamVars, doLog, rotVars, srCall, policy, boCall,
              pacerVars, sessVars>>

\* the call returns
Returned(t) ==
  /\ tpc' = [tpc EXCEPT ![t] = "idle"]
  /\ tdone' = [tdone EXCEPT ![t] = tdone[t] + 1]

\* a request calls RotateKey (client.go:140) or ResetKeyRotation (client.go:170)
RBegin(t) ==
  /\ tpc[t] = "idle"
  /\ tdone[t] < RaceOps
  /\ \E op \in {"len", "reset"} : tpc' = [tpc EXCEPT ![t] = op]
  /\ UNCHANGED <<CurrentKeyIndex, APIKey, startKeyIndex, tnext, tdone, rotated>>
  /\ RaceFrame

\* part_005:221-223: `c.startKeyIndex = -1`
RReset(t) ==
  /\ tpc[t] = "reset"
  /\ startKeyIndex' = -1
  /\ Returned(t)
  /\ UNCHANGED <<CurrentKeyIndex, APIKey, tnext, rotated>>
  /\ RaceFrame

\* part_005:198-200: `if len(c.APIKeys) <= 1 { return "", ErrNoAvailableKeys }`
RLen(t) ==
  /\ tpc[t] = "len"
  /\ IF Len(APIKeys) <= 1
     THEN Returned(t)
     ELSE tpc' = [tpc EXCEPT ![t] = "mark"] /\ UNCHANGED tdone
  /\ UNCHANGED <<CurrentKeyIndex, APIKey, startKeyIndex, tnext, rotated>>
  /\ RaceFrame

\* part_005:203: `if c.startKeyIndex < 0`
RMark(t) ==
  /\ tpc[t] = "mark"
  /\ tpc' = [tpc EXCEPT ![t] = IF startKeyIndex < 0 THEN "setmark" ELSE "next"]
  /\ UNCHANGED <<CurrentKeyIndex, APIKey, startKeyIndex, tnext, tdone, rotated>>
  /\ RaceFrame

\* part_005:204: `c.startKeyIndex = c.CurrentKeyIndex`
RSetMark(t) ==
  /\ tpc[t] = "setmark"
  /\ startKeyIndex' = CurrentKeyIndex
  /\ tpc' = [tpc EXCEPT ![t] = "next"]
  /\ UNCHANGED <<CurrentKeyIndex, APIKey, tnext, tdone, rotated>>
  /\ RaceFrame

\* part_005:207: `nextIndex := (c.CurrentKeyIndex + 1) % len(c.APIKeys)`
RNext(t) ==
  /\ tpc[t] = "next"
  /\ tnext' = [tnext EXCEPT ![t] = (CurrentKeyIndex + 1) % Len(APIKeys)]
  /\ tpc' = [tpc EXCEPT ![t] = "cmp"]
  /\ UNCHANGED <<CurrentKeyIndex, APIKey, startKeyIndex, tdone, rotated>>
  /\ RaceFrame

\* part_005:210: `if nextIndex == c.startKeyIndex`
RCmp(t) ==
  /\ tpc[t] = "cmp"
  /\ tpc' = [tpc EXCEPT ![t] = IF tnext[t] = startKeyIndex THEN "clear" ELSE "index"]
  /\ UNCHANGED <<CurrentKeyIndex, APIKey, startKeyIndex, tnext, tdone, rotated>>
  /\ RaceFrame

\* part_005:211-212: `c.startKeyIndex = -1; return "", ErrNoAvailableKeys`
RClear(t) ==
  /\ tpc[t] = "clear"
  /\ startKeyIndex' = -1
  /\ Returned(t)
  /\ UNCHANGED <<CurrentKeyIndex, APIKey, tnext, rotated>>
  /\ RaceFrame

\* part_005:215: `c.CurrentKeyIndex = nextIndex`
RIndex(t) ==
  /\ tpc[t] = "index"
  /\ CurrentKeyIndex' = tnext[t]
  /\ tpc' = [tpc EXCEPT ![t] = "key"]
  /\ UNCHANGED <<APIKey, startKeyIndex, tnext, tdone, rotated>>
  /\ RaceFrame

\* part_005:216-217: `c.APIKey = c.APIKeys[nextIndex]; return c.APIKey, nil`
RKey(t) ==
  /\ tpc[t] = "key"
  /\ APIKey' = APIKeys[tnext[t] + 1]
  /\ rotated' = rotated + 1
  /\ Returned(t)
  /\ UNCHANGED <<CurrentKeyIndex, startKeyIndex, tnext>>
  /\ RaceFrame

NextRace ==
  \/ \E t \in Threads : RBegin(t)
  \/ \E t \in Threads : RReset(t)
  \/ \E t \in Threads : RLen(t)
  \/ \E t \in Threads : RMark(t)
  \/ \E t \in Threads : RSetMark(t)
  \/ \E t \in Threads : RNext(t)
  \/ \E t \in Threads : RCmp(t)
  \/ \E t \in Threads : RClear(t)
  \/ \E t \in Threads : RIndex(t)
  \/ \E t \in Threads : RKey(t)

SpecRace == InitRace /\ [][NextRace]_vars

\* ------------------------------------------------- interactive session
\* what sendInteractiveMessage returns (part_012:354-418): a response (which
\* may be empty), context.Canceled, or another error
SendOutcomes ==
  { [kind |-> "ok", response |-> r] : r \in {"", "reply"} }
  \cup { [kind |-> "cancelled", response |-> ""], [kind |-> "failed", response |-> ""] }

ChatInputs == {"a", "b"}

FailedResponsePlaceholder == "placeholder"

\* part_012:238-242
appendMessage(msgs, m) == Append(msgs, m)

\* part_012:245-251
removeLastMessage(msgs) ==
  IF Len(msgs) > 0 THEN SubSeq(msgs, 1, Len(msgs) - 1) ELSE msgs

\* part_012:335-338, part_014:608-611: `if response == "" { response = placeholder }`
ResponseText(r) == IF r = "" THEN FailedResponsePlaceholder ELSE r

\* variant: a cancelled chat input leaves its user message in the list
AfterChat_KeepOnCancel(msgs, o, exch) ==
  IF o.kind = "cancelled" THEN msgs
  ELSE IF o.kind = "failed"
  THEN appendMessage(msgs, Message("assistant", FailedResponsePlaceholder, exch))
  ELSE appendMessage(msgs, Message("assistant", ResponseText(o.response), exch))

\* part_012:319-338: the message list after the upstream call of a chat input
AfterChat(msgs, o, exch) ==
  IF o.kind = "cancelled" THEN removeLastMessage(msgs)
  ELSE IF o.kind = "failed"
  THEN appendMessage(msgs, Message("assistant", FailedResponsePlaceholder, exch))
  ELSE appendMessage(msgs, Message("assistant", ResponseText(o.response), exch))

\* part_014:581-590: drop the last message if it is an assistant message,
\* then the last message if it is a user message
RetryTrim(msgs) ==
  LET a == IF Len(msgs) > 0 /\ msgs[Len(msgs)].role = "assistant"
           THEN SubSeq(msgs, 1, Len(msgs) - 1) ELSE msgs
  IN IF Len(a) > 0 /\ a[Len(a)].role = "user"
     THEN SubSeq(a, 1, Len(a) - 1) ELSE a

\* part_014:597-613: the message list after the upstream call of /retry
AfterRetry(msgs, o, exch) ==
  IF o.kind \in {"cancelled", "failed"} THEN removeLastMessage(msgs)
  ELSE appendMessage(msgs, Message("assistant", ResponseText(o.response), exch))

InitSession ==
  /\ OneKeyClient
  /\ FunctionsNotCalled
  /\ PacerIdle
  /\ RaceIdle
  /\ SessionIdle

SessionFrame ==
  UNCHANGED <<cfgVars, MaxRetries, onKeyRotation, pc, shape, rotating, ctxCancelled, attempt,
              err, result, logVars, streamVars, doLog, rotVars, srCall, policy, boCall,
              pacerVars, raceVars>>

\* executor with a chat input (part_012:278-351)
ChatInput ==
  /\ opCount < SessionOps
  /\ \E input \in ChatInputs, o \in SendOutcomes :
       LET exch == opCount + 1
           sent == appendMessage(messages, Message("user", input, exch))
       IN /\ lastUserInput' = input
          /\ lastExch' = exch
          /\ messages' = AfterChat(sent, o, exch)
          /\ lastResponse' = IF o.kind = "cancelled" THEN lastResponse
                             ELSE IF o.kind = "failed" THEN FailedResponsePlaceholder
                             ELSE ResponseText(o.response)
  /\ opCount' = opCount + 1
  /\ lastOp' = "chat"
  /\ SessionFrame

\* cmdRetry (part_014:575-621)
CmdRetry ==
  /\ opCount < SessionOps
  /\ IF lastUserInput = ""
     THEN UNCHANGED <<messages, lastResponse>>
     ELSE \E o \in SendOutcomes :
            LET sent == appendMessage(RetryTrim(messages),
                                      Message("user", lastUserInput, lastExch))
            IN /\ messages' = AfterRetry(sent, o, lastExch)
               /\ lastResponse' = IF o.kind = "ok" THEN ResponseText(o.response)
                                  ELSE lastResponse
  /\ opCount' = opCount + 1
  /\ lastOp' = "retry"
  /\ UNCHANGED <<lastUserInput, lastExch>>
  /\ SessionFrame

\* cmdClear (part_014:564-573)
CmdClear ==
  /\ opCount < SessionOps
  /\ messages' = <<SystemMessage>>
  /\ lastUserInput' = ""
  /\ lastResponse' = ""
  /\ lastExch' = 0
  /\ opCount' = opCount + 1
  /\ lastOp' = "clear"
  /\ SessionFrame

NextSession == ChatInput \/ CmdRetry \/ CmdClear

SpecSession == InitSession /\ [][NextSession]_vars

\* ================================================================= claims
Done == pc = "done"
Succeeded == Done /\ result.kind = "nil"
Exhausted == Done /\ result.kind = "text"
NumKeys == Len(APIKeys)

\* the status code a caller can still get from an error: the field of an
\* *APIError, or the number in a "status code N" text
StatusOf(e) ==
  IF e.kind = "api" THEN e.status
  ELSE IF \E s \in Statuses : Contains(e.msg, <<"status", "code", StatusText(s)>>)
  THEN CHOOSE s \in Statuses : Contains(e.msg, <<"status", "code", StatusText(s)>>)
  ELSE 0

\* C1: with N >= 2 keys and no cycle in progress, a request whose first k key
\* attempts end in rotatable API errors and whose next attempt succeeds returns
\* after exactly k+1 HTTP exchanges (no transport errors), the last one with
\* the current credential, and the rotation callback has fired k times with
\* the 1-based positions of the keys tried.
C1_SuccessAfterKPlusOneExchanges ==
  (Succeeded /\ rotating /\ startAtBegin = -1 /\ ~sawNonAPI)
    => /\ exchanges = rotateCalls + 1
       /\ lastSent = APIKey
       /\ onKeyRotation =>
            /\ Len(callbacks) = rotateCalls
            /\ \A i \in 1..Len(callbacks) :
                 callbacks[i] = <<attemptKeys[i] + 1, attemptKeys[i + 1] + 1, NumKeys>>

C3_ChunksAreTheFrameContents == chunks = expected

\* C4: once a check point has observed cancellation the request makes no
\* further HTTP exchange and no rotate() call, and returns.
C4_NoWorkAfterCancellation ==
  /\ [](observed => pc \in {"after", "done"})
  /\ [][observed' => (exchanges' = exchanges /\ rotateCalls' = rotateCalls
                        /\ cfgVars' = cfgVars)]_vars
  /\ [][(observed /\ pc = "after") => pc' = "done"]_vars

C4_Witness ==
  Done /\ observed /\ rotating /\ err.kind = "api" /\ shouldRotateKey(err.status, err.msg)
       /\ result = CtxErr /\ rotateCalls = 0

\* C5: a cancelled request returns the context's error itself, never an error
\* of the pending operation that wraps it, for one key or several.
C5_CancellationReturnedVerbatim ==
  (Done /\ result.cause = "ctx") => result = CtxErr

\* C6: a request with N >= 2 keys that gives up with key exhaustion has
\* attempted every configured key exactly once during that request.
C6_ExhaustionTriedEveryKey ==
  (Exhausted /\ rotating)
    => /\ Len(attemptKeys) = NumKeys
       /\ SeqToSet(attemptKeys) = 0..(NumKeys - 1)

\* C7: on exhaustion the request returns the failing attempt's API error with
\* its status code and message still available, plus the annotation.
C7_ExhaustionKeepsStatusAndMessage ==
  Exhausted
    => /\ StatusOf(result) = err.status
       /\ Contains(result.msg, err.msg)
       /\ Contains(result.msg, NoMoreKeys)

\* an attempt failure that does not qualify for rotation
NotForRotation(e) ==
  e.kind # "nil" /\ (e.kind # "api" \/ ~shouldRotateKey(e.status, e.msg))

\* C8 as stated: in the outer loop a failure that is not a rotatable API
\* error is returned unchanged.
C8_ReturnedUnchanged ==
  (Done /\ rotating /\ NotForRotation(err)) => result = err

\* C8 amended: such a failure ends the request at once without rotate(), a
\* further attempt or a change of index, credential or marker; it is returned
\* unchanged unless the context is cancelled by then, and then the context's
\* error is returned.
C8_ReturnedWithoutRotation ==
  /\ []((Done /\ rotating /\ NotForRotation(err))
          => result = (IF ctxCancelled THEN CtxErr ELSE err))
  /\ [][(pc = "after" /\ pc' # "after" /\ rotating /\ NotForRotation(err))
          => (pc' = "done" /\ rotateCalls' = rotateCalls /\ exchanges' = exchanges
                /\ cfgVars' = cfgVars)]_vars

C8_Witness ==
  Done /\ rotating /\ err.kind = "api" /\ err.status = 500 /\ ~ctxCancelled
       /\ result = err /\ rotateCalls = 1 /\ startKeyIndex # -1

\* C9: with exactly one credential every shape makes one attempt and returns
\* its result unchanged: no rotate(), no callback, no annotation.
C9_SingleKeySingleAttempt ==
  (NumKeys = 1 /\ pc # "idle")
    => /\ rotateCalls = 0
       /\ callbacks = <<>>
       /\ Len(attemptKeys) = 1
       /\ Done => (result = err /\ result.kind # "text")

C9_Witness ==
  NumKeys = 1 /\ Done /\ result.kind = "api" /\ result.status = 401

\* the last key attempt used up the retry budget on transient transport errors
BudgetSpentOnTransport ==
  err.kind = "wrapped" /\ IsRetryableError(err) /\ attemptExch = MaxRetries + 1

\* C10 as stated: when all MaxRetries+1 exchanges fail transiently the
\* transport error is what the caller gets.
C10_TransportErrorSurfaced ==
  (Done /\ BudgetSpentOnTransport) => result = err

\* C10 amended: inner retries never rotate or change the credential, and a
\* spent retry budget ends the request without rotation, with the transport
\* error or, if the context was cancelled meanwhile, the context's error.
C10_RetriedInPlace ==
  /\ [][(pc \in {"do", "fn", "backoff"})
          => (rotateCalls' = rotateCalls /\ cfgVars' = cfgVars)]_vars
  /\ [][(pc = "fn" /\ pc' = "after" /\ attemptExch >= 1 /\ attemptExch' > attemptExch)
          => lastSent' = lastSent]_vars
  /\ [][(pc = "after" /\ pc' # "after" /\ BudgetSpentOnTransport)
          => (pc' = "done" /\ rotateCalls' = rotateCalls /\ cfgVars' = cfgVars)]_vars
  /\ []((Done /\ BudgetSpentOnTransport)
          => result = (IF ctxCancelled /\ rotating THEN CtxErr ELSE err))

C10_Witness ==
  Done /\ rotating /\ MaxRetries >= 1 /\ BudgetSpentOnTransport /\ result = err

\* C11: with N >= 2 keys and no cycle in progress at index s, consecutive
\* RotateKey calls return the keys at (s+1) mod N, ..., (s+N-1) mod N in that
\* order and the N-th call returns exhausted.
C11_FullCycleThenExhausted ==
  (NumKeys >= 2 /\ rotOrigin \in {"new", "exhausted"})
    => /\ Len(rotLog) <= NumKeys
       /\ \A i \in 1..Len(rotLog) :
            rotLog[i] = IF i < NumKeys
                        THEN APIKeys[((rotFrom + i) % NumKeys) + 1]
                        ELSE "exhausted"

C11_Witness ==
  /\ NumKeys = 3 /\ rotOrigin = "new" /\ rotFrom = 1
  /\ Len(rotLog) = 3 /\ lastRotate = "exhausted"

\* C12: with at most one key every RotateKey call returns exhausted and
\* leaves the current index, the active credential and the cycle-start marker
\* as they were.
C12_SmallSetNeverRotates ==
  [][(NumKeys <= 1 /\ lastRotate' # "none")
       => (lastRotate' = "exhausted" /\ cfgVars' = cfgVars)]_vars

C12_Witness ==
  NumKeys = 1 /\ lastRotate = "exhausted" /\ rotOrigin = "reset"

\* C13: after any sequence of RotateKey and ResetKeyRotation calls on a
\* non-empty key list the current index is within 0..N-1 and Config.APIKey is
\* the key stored at the current index.
C13_IndexAndKeyAgree ==
  NumKeys >= 1
    => /\ CurrentKeyIndex \in 0..(NumKeys - 1)
       /\ APIKey = APIKeys[CurrentKeyIndex + 1]

C13_Witness ==
  /\ NumKeys >= 2 /\ rotOrigin = "reset" /\ Len(rotLog) = 2
  /\ lastRotate = APIKey /\ CurrentKeyIndex = 0

\* C14: after ResetKeyRotation, at any point of a cycle and at any index c,
\* the next N-1 RotateKey calls (N >= 2) succeed with the keys at (c+1) mod N,
\* (c+2) mod N, ... and only the N-th call returns exhausted.
C14_FreshCycleAfterReset ==
  (NumKeys >= 2 /\ rotOrigin = "reset")
    => /\ Len(rotLog) <= NumKeys
       /\ \A i \in 1..Len(rotLog) :
            /\ (i < NumKeys) => rotLog[i] = APIKeys[((rotFrom + i) % NumKeys) + 1]
            /\ (i = NumKeys) => rotLog[i] = "exhausted"

C14_Witness ==
  /\ NumKeys = 3 /\ rotOrigin = "reset" /\ rotFrom = 2
  /\ rotLog = <<"key1", "key2", "exhausted">>

\* C16: a set rotation callback is called exactly once by every rotateKey
\* call that rotates, with the 1-based position left, the 1-based position
\* reached (the index already changed) and the key count; a rotateKey call
\* that returns exhausted does not call it.
C16_CallbackOncePerRotation ==
  [][(onKeyRotation /\ lastRotate' # "none")
       => callbacks' = IF lastRotate' = "exhausted" THEN <<>>
                       ELSE << <<CurrentKeyIndex + 1, CurrentKeyIndex' + 1, NumKeys>> >>]_vars

C16_Witness ==
  onKeyRotation /\ NumKeys = 3 /\ callbacks = << <<3, 1, 3>> >>

\* C15: shouldRotateKey(status, message) is true exactly when the status is
\* 401, 403 or 429 or the message contains, in any letter case, one of the
\* credit/quota exhaustion phrases; 402 and 500 with a neutral message give
\* false.
C15_RotateIffStatusOrPhrase ==
  srCall # <<>>
    => srCall[1].verdict = (srCall[1].status \in {401, 403, 429} \/ srCall[1].phrase)

C15_Witness ==
  /\ srCall # <<>>
  /\ srCall[1].status = 400 /\ srCall[1].text = <<"INSUFFICIENT", "CREDIT">>
  /\ srCall[1].verdict

DoReturned == pc \in {"after", "stream"}

\* C17: without cancellation Do calls fn exactly min(k, MaxRetries+1) times,
\* k being the first call that returns success or a non-retryable error, and
\* returns that call's outcome, or the last retryable error when the budget
\* of MaxRetries+1 calls is used up.
C17_CallsAndOutcome ==
  (DoReturned /\ ~ctxCancelled)
    => IF firstFinal # 0
       THEN /\ fnCalls = firstFinal
            /\ firstFinal <= MaxRetries + 1
            /\ (err.kind = "nil" \/ ~IsRetryableError(err))
       ELSE /\ fnCalls = MaxRetries + 1
            /\ err.kind # "nil"
            /\ IsRetryableError(err)

\* C18: once the context is cancelled, Do at the top of an attempt or in a
\* backoff sleep calls fn no more, and when it returns it returns the
\* context's error, not the error of the last call.
C18_CancelStopsDo ==
  /\ [][(ctxCancelled /\ ((pc = "do" /\ attempt <= MaxRetries) \/ pc = "backoff"))
          => /\ fnCalls' = fnCalls
             /\ pc' # "fn"
             /\ (pc' = "after" => err' = CtxErr)]_vars
  /\ []((pc = "after" /\ observed) => err = CtxErr)

C18_Witness ==
  /\ pc = "after" /\ observed /\ err = CtxErr
  /\ fnCalls = 1 /\ MaxRetries = 2 /\ firstFinal = 0

\* nominal = min(initial * multiplier^a, maxBackoff) as the fraction
\* NominalNum / NominalDen, for the recorded call
NominalOver ==
  policy.InitialBackoff * Pow(policy.Multiplier2, boCall[1].attempt)
    > policy.MaxBackoff * Pow(2, boCall[1].attempt)
NominalNum ==
  IF NominalOver THEN policy.MaxBackoff
  ELSE policy.InitialBackoff * Pow(policy.Multiplier2, boCall[1].attempt)
NominalDen == IF NominalOver THEN 1 ELSE Pow(2, boCall[1].attempt)

\* C19: for every policy and every attempt a >= 0 the duration returned by
\* CalculateBackoff(a) is at most MaxBackoff.
C19_NeverAboveMax ==
  boCall # <<>> => boCall[1].value <= policy.MaxBackoff

\* C20 as stated: CalculateBackoff(a) lies within [(1-j)*nominal,
\* (1+j)*nominal] for every policy and a >= 0, equals nominal when j = 0, and
\* is the initial backoff for attempt 0.
C20_WithinJitterRange ==
  boCall # <<>>
    => /\ boCall[1].value * NominalDen * 4 >= (4 - policy.Jitter4) * NominalNum
       /\ boCall[1].value * NominalDen * 4 <= (4 + policy.Jitter4) * NominalNum
       /\ (policy.Jitter4 = 0) => (boCall[1].value * NominalDen = NominalNum)
       /\ (boCall[1].attempt = 0) => (boCall[1].value = policy.InitialBackoff)

\* C20 as the code has it: attempt 0 returns InitialBackoff whatever MaxBackoff
\* is; for a >= 1 the result is a value of [(1-j)*nominal, (1+j)*nominal] with
\* the fraction of a nanosecond dropped, and nominal with the fraction dropped
\* when j = 0.
C20_WithinJitterRangeTruncated ==
  boCall # <<>>
    => /\ (boCall[1].attempt = 0) => (boCall[1].value = policy.InitialBackoff)
       /\ (boCall[1].attempt >= 1)
            => /\ (boCall[1].value + 1) * NominalDen * 4 > (4 - policy.Jitter4) * NominalNum
               /\ boCall[1].value * NominalDen * 4 <= (4 + policy.Jitter4) * NominalNum
               /\ (policy.Jitter4 = 0) => (boCall[1].value = NominalNum \div NominalDen)

C20_Witness ==
  /\ boCall # <<>>
  /\ boCall[1].attempt = 2 /\ policy.Jitter4 = 2 /\ policy.Multiplier2 = 3
  /\ boCall[1].value > policy.MaxBackoff

\* C21: a set retry callback is called once for every call of fn that fails
\* with a retryable error before the last allowed attempt, on the way into
\* the backoff sleep, with the 0-based attempt, MaxRetries and that error, and
\* at no other time; an operation that fails retryably until the budget is
\* used up gives MaxRetries callbacks with attempts 0..MaxRetries-1.
C21_CallbackPerRetry ==
  /\ [][(onRetry /\ fnCalls' = fnCalls + 1)
          => IF err'.kind # "nil" /\ IsRetryableError(err') /\ attempt < MaxRetries
             THEN /\ retryInfos' = Append(retryInfos, <<attempt, MaxRetries, err'>>)
                  /\ pc' = "backoff"
             ELSE retryInfos' = retryInfos]_vars
  /\ [][(onRetry /\ pc \in {"do", "backoff", "after", "stream"})
          => retryInfos' = retryInfos]_vars
  /\ []((onRetry /\ DoReturned /\ ~ctxCancelled /\ firstFinal = 0 /\ fnCalls >= 1)
          => /\ Len(retryInfos) = MaxRetries
             /\ \A i \in 1..Len(retryInfos) : retryInfos[i][1] = i - 1)

C21_Witness ==
  /\ onRetry /\ DoReturned /\ ~ctxCancelled /\ firstFinal = 0
  /\ MaxRetries = 2 /\ Len(retryInfos) = 2

\* C22: the values the Wait calls write to lastRequest are pairwise at least
\* the interval apart, whatever the interleaving and whoever is cancelled;
\* lastRequest is written only by the caller holding the lock, and a caller
\* that sleeps has written its reservation and released the lock.
C22_SlotsAtLeastIntervalApart ==
  /\ [](\A i \in 1..Len(granted) : \A j \in 1..Len(granted) :
          (i < j) => (granted[j] - granted[i] >= interval))
  /\ [][(lastRequest' # lastRequest)
          => \E p \in Callers : mu = p /\ mu' = p /\ wpc[p] = "locked" /\ wpc'[p] = "reserved"]_vars
  /\ [][\A p \in Callers : (wpc'[p] = "sleep" /\ wpc[p] # "sleep")
          => (wpc[p] = "reserved" /\ mu = p /\ mu' = 0)]_vars

C22_Witness ==
  /\ Len(granted) = 3 /\ interval = 2
  /\ granted[2] - granted[1] = interval /\ granted[3] - granted[2] = interval
  /\ \E p \in Callers : wpc[p] = "done" /\ wret[p] = "ctx"
  /\ \E p \in Callers : wpc[p] = "sleep"

\* C23 as stated: a Wait entered with a cancelled context returns the
\* context's error.
C23_CancelledOnEntryReturnsCtx ==
  \A p \in Callers : (wpc[p] = "done" /\ wentry[p]) => wret[p] = "ctx"

\* C23 as the code has it: a Wait entered with a cancelled context returns the
\* context's error unless it needed no wait or its wait was over when it
\* returned; a caller sleeping in the same pacer does not change that.
C23_CancelledOnEntryReturnsCtxIfWaiting ==
  \A p \in Callers :
    (wpc[p] = "done" /\ wentry[p])
      => (wret[p] = "ctx" \/ wwait[p] = 0 \/ now >= wwake[p])

C23_Witness ==
  \E p \in Callers, q \in Callers :
    /\ wpc[p] = "done" /\ wentry[p] /\ wret[p] = "ctx" /\ now < wwake[p]
    /\ wpc[q] = "sleep" /\ ~wctx[q]

\* C24: with requests running concurrently on one client, whenever no
\* RotateKey or ResetKeyRotation call is in progress the state is one a serial
\* order of the calls produces: the active credential is the key at the
\* current index, and the index has advanced once per RotateKey call that
\* returned a key (no lost update).
C24_RotateResetAtomic ==
  (\A t \in Threads : tpc[t] = "idle")
    => /\ APIKey = APIKeys[CurrentKeyIndex + 1]
       /\ CurrentKeyIndex = rotated % Len(APIKeys)

\* the stream call has returned to the outer loop, or the request is over
StreamReturned == IsStreamShape(shape) /\ pc \in {"after", "done"}

\* C25: when a streaming call returns, on success, error or cancellation, no
\* response body it obtained is still open, the non-200 bodies of attempts
\* that were retried, rotated or returned as errors included.
C25_BodiesClosedOnReturn == StreamReturned => openBodies = 0

C25_Witness ==
  /\ StreamReturned /\ Done /\ rotateCalls = 1 /\ streamStarted
  /\ result.kind = "wrapped" /\ openBodies = 0

\* the read loop has taken one more line from the body
LineRead == linesRead' = linesRead + 1

\* C26: a stream that ends at the sentinel or at the end of the stream ends
\* with success; the completion callback is called once, with the last parsed
\* chunk that carried citations or a token usage (each such chunk replaces
\* the one retained before), or not at all when there was none; it is called
\* as the loop is left, so after every chunk callback.
C26_CompletionOnceWithLastMetadata ==
  /\ [][LineRead
          => finalResp' = IF lastLine'.form = "data" /\ lastLine'.meta > 0
                          THEN lastLine'.meta ELSE finalResp]_vars
  /\ []((StreamReturned /\ streamStarted /\ err.kind = "nil")
          => doneCalls = IF finalResp = 0 THEN <<>> ELSE <<finalResp>>)
  /\ [][(LineRead /\ lastLine'.form = "done") => (pc' = "after" /\ err' = NilErr)]_vars
  /\ [][(doneCalls' # doneCalls /\ doneCalls' # <<>>)
          => (pc = "read" /\ pc' = "after" /\ doneCalls = <<>>)]_vars
  /\ [][(StreamReturned /\ StreamReturned') => chunks' = chunks]_vars

C26_Witness ==
  /\ StreamReturned /\ err.kind = "nil" /\ linesRead = 2
  /\ lastLine = Frame("data", "", 2) /\ chunks = <<"b">> /\ doneCalls = <<2>>

\* C27: a data frame that is not valid JSON is skipped and the loop goes on;
\* every line read, after such a frame as well, is processed; a read failure
\* ends the call with an error, without a completion callback and without any
\* further chunk callback.
C27_MalformedSkippedReadFailureAborts ==
  /\ [][(LineRead /\ lastLine'.form = "malformed")
          => (pc' = "stream" /\ chunks' = chunks /\ finalResp' = finalResp
                /\ doneCalls' = doneCalls)]_vars
  /\ [][LineRead => chunks' = chunks \o ContentOf(lastLine')]_vars
  /\ []((StreamReturned /\ streamStarted /\ err.kind = "wrapped")
          => (doneCalls = <<>> /\ (Done => result.kind # "nil")))
  /\ [][(StreamReturned /\ StreamReturned')
          => (chunks' = chunks /\ doneCalls' = doneCalls)]_vars

C27_Witness ==
  /\ pc = "stream" /\ linesRead = 1 /\ lastLine.form = "malformed"
  /\ chunks = <<>> /\ doneCalls = <<>>

\* C30: the cycle-start marker is unset in a new client and whenever a
\* request of any of the four shapes has returned success.
C30_MarkerUnsetAfterSuccess ==
  /\ (pc = "idle" => startKeyIndex = -1)
  /\ (Succeeded => startKeyIndex = -1)

C30_Witness ==
  Succeeded /\ rotating /\ rotateCalls = 1 /\ IsStreamShape(shape)
    /\ Len(chunks) = 1 /\ startKeyIndex = -1

\* C28: after any sequence of chat inputs, /retry and /clear, whatever each
\* upstream call returned, the message list is the system message followed by
\* user and assistant messages in strict alternation, so it ends with an
\* assistant message or is the system message alone.
C28_SystemThenAlternating ==
  /\ Len(messages) >= 1
  /\ messages[1].role = "system"
  /\ Len(messages) % 2 = 1
  /\ \A i \in 2..Len(messages) :
       messages[i].role = IF i % 2 = 0 THEN "user" ELSE "assistant"

C28_Witness ==
  /\ lastOp = "retry" /\ opCount = 3 /\ Len(messages) = 3
  /\ messages[3].content = FailedResponsePlaceholder

\* C29: /retry removes no message of an exchange other than the one of the
\* input it re-sends: every such message is still there, in its place.
C29_RetryKeepsEarlierExchanges ==
  [][(lastOp' = "retry" /\ opCount' = opCount + 1)
       => \A i \in 1..Len(messages) :
            (messages[i].exch # lastExch)
              => (i <= Len(messages') /\ messages'[i] = messages[i])]_vars

\* C31: a caller sleeping in Wait does not hold the lock: the lock is held
\* only between Lock and Unlock, so while one caller sleeps another one can
\* lock, reserve its slot and return or observe its cancellation.
C31_LockNotHeldWhileSleeping ==
  /\ \A p \in Callers : wpc[p] = "sleep" => mu # p
  /\ mu # 0 => wpc[mu] \in {"locked", "reserved"}
  /\ \A p \in Callers :
       (wpc[p] = "idle" /\ \A q \in Callers : wpc[q] \in {"idle", "sleep", "done"})
         => ENABLED PLock(p)

C31_Witness ==
  \E p \in Callers, q \in Callers :
    /\ wpc[q] = "sleep" /\ ~wctx[q] /\ now < wwake[q]
    /\ wpc[p] = "done" /\ wret[p] = "ctx" /\ ~wentry[p] /\ wwake[p] > wwake[q]

\* C32: a Wait cancelled during its sleep returns the cancellation error and
\* writes nothing: lastRequest keeps the slot the call reserved, and the next
\* reservation is at least one interval after it.
C32_CancelKeepsReservation ==
  /\ [][\A p \in Callers :
          (wpc[p] = "sleep" /\ wpc'[p] = "done")
            => /\ lastRequest' = lastRequest /\ granted' = granted
               /\ mu' = mu /\ interval' = interval
               /\ (wctx[p] /\ now < wwake[p]) => wret'[p] = "ctx"]_vars
  /\ [][(granted' # granted)
          => (lastRequest' = granted'[Len(granted')]
                /\ lastRequest' >= lastRequest + interval)]_vars

C32_Witness ==
  /\ Len(granted) = 3
  /\ \E p \in Callers, q \in Callers :
       /\ wpc[p] = "done" /\ wret[p] = "ctx" /\ ~wentry[p] /\ wwake[p] = granted[2]
       /\ wpc[q] \in {"reserved", "sleep"} /\ lastRequest = granted[2] + interval

\* C33: within a request the pacer's Wait is called once per key attempt,
\* before the attempt's first exchange: every exchange is made with as many
\* waits as key attempts, a retry after a backoff is not preceded by a wait,
\* and the attempt after a rotation waits again.
C33_OneWaitPerKeyAttempt ==
  /\ []((pc = "wait") => waits = Len(attemptKeys) - 1)
  /\ []((pc \in {"sleep", "do", "fn", "backoff", "stream", "read", "after", "done"})
          => waits = Len(attemptKeys))
  /\ [][(exchanges' = exchanges + 1) => (waits' = waits /\ waits = Len(attemptKeys))]_vars
  /\ [][(pc = "backoff") => (waits' = waits /\ pc' # "wait")]_vars
  /\ [][(Len(attemptKeys') = Len(attemptKeys) + 1) => pc' = "wait"]_vars

C33_Witness ==
  Done /\ rotating /\ rotateCalls = 1 /\ waits = 2 /\ exchanges = 3 /\ sawNonAPI
    /\ result.kind = "nil"

\* C34: a RotateKey call that reports exhaustion after a full cycle leaves the
\* current index and the active credential on the last key tried and clears
\* the cycle-start marker; with N >= 2 keys the very next call starts a new
\* cycle from that key and returns the following key.
C34_ExhaustionNotSticky ==
  /\ [][(lastRotate' = "exhausted" /\ rotLog' # <<>>)
          => /\ CurrentKeyIndex' = CurrentKeyIndex /\ APIKey' = APIKey
             /\ APIKeys' = APIKeys /\ startKeyIndex' = -1]_vars
  /\ [][(lastRotate = "exhausted" /\ NumKeys >= 2 /\ Len(rotLog') = 1)
          => /\ lastRotate' = APIKeys[((CurrentKeyIndex + 1) % NumKeys) + 1]
             /\ CurrentKeyIndex' = (CurrentKeyIndex + 1) % NumKeys
             /\ APIKey' = lastRotate'
             /\ startKeyIndex' = CurrentKeyIndex]_vars
  /\ []((lastRotate = "exhausted" /\ NumKeys >= 2)
          => (CurrentKeyIndex = (rotFrom + NumKeys - 1) % NumKeys
                /\ APIKey = APIKeys[CurrentKeyIndex + 1]))

C34_Witness ==
  /\ NumKeys = 3 /\ rotOrigin = "exhausted" /\ rotLog = <<"key1">>
  /\ CurrentKeyIndex = 0 /\ startKeyIndex = 2 /\ rotFrom = 2

\* how far a request is from returning: key attempts left, retries left in the
\* attempt, body lines left, and the position inside the attempt
Remaining ==
  (NumKeys - waits) * 1000 + (MaxRetries - attempt) * 100 + (MaxLines + 1 - linesRead) * 10
    + (CASE pc = "sleep" -> 8 [] pc = "do" -> 7 [] pc = "fn" -> 6 [] pc = "backoff" -> 5
         [] pc = "stream" -> 4 [] pc = "read" -> 3 [] pc = "after" -> 2 [] pc = "wait" -> 1
         [] OTHER -> 0)

\* C35: with N keys and retry budget m a request of a sequential caller makes
\* at most N key attempts and at most N*(m+1) exchanges (m+1 per key attempt),
\* whatever the outcomes and whatever cycle-start marker earlier requests
\* left, and it terminates: until it has returned a step of it is always
\* possible and every step of it brings it closer to returning.
C35_BoundedAttemptsAndExchanges ==
  /\ [](/\ Len(attemptKeys) <= NumKeys
        /\ waits <= NumKeys
        /\ attemptExch <= MaxRetries + 1
        /\ exchanges <= NumKeys * (MaxRetries + 1))
  /\ []((pc \notin {"idle", "done"}) => ENABLED (Next /\ ctxCancelled' = ctxCancelled))
  /\ [][(pc \notin {"idle", "done"} /\ ctxCancelled' = ctxCancelled)
          => Remaining' < Remaining]_<<pc, attempt, waits, linesRead, ctxCancelled>>

C35_Witness ==
  /\ Done /\ NumKeys = 2 /\ MaxRetries = 1
  /\ Len(attemptKeys) = 2 /\ exchanges = 4 /\ result.kind = "text"

\* C36: the inner retry engine never retries a non-2xx HTTP response: Do
\* never goes to a backoff sleep, and so to another exchange on the same key,
\* after an attempt that ended in an *APIError, whatever its message.
C36_APIErrorNeverRetriedInside ==
  (pc = "backoff") => err.kind # "api"

\* C37: the NextBackoff handed to the retry callback is the duration Do then
\* sleeps before the next attempt, for every policy, jitter included.
C37_ReportedBackoffIsSlept ==
  (Len(boCall) = 2) => boCall[1].value = boCall[2].value

\* C38: Do returns nil only if some call of fn returned success, for every
\* policy (MaxRetries zero or negative included), and it returns without
\* having called fn only with the error of an already cancelled context.
C38_NilOnlyAfterSuccessfulCall ==
  DoReturned
    => /\ (err.kind = "nil") => (fnCalls >= 1 /\ firstFinal = fnCalls)
       /\ (fnCalls = 0) => (ctxCancelled /\ err = CtxErr)

\* C39: a data frame that is the last line of the body is processed whether
\* or not a newline follows it: the read that reaches the end of the body
\* together with a frame carrying content hands that content to the chunk
\* callback before the stream is finished.
C39_LastFrameWithoutNewlineProcessed ==
  [][(pc = "read" /\ pc' = "after" /\ err' = NilErr /\ expected' # expected)
       => chunks' = Append(chunks, expected'[Len(expected')])]_vars

====
